---- MODULE Spec2Model ----
(***************************************************************************)
(* Model of the acquisition / normalisation / merge pipeline of            *)
(* data_fetcher.py (fetch_csv with its file cache, clean_nameplate,        *)
(* clean_mto, build_supply_profile, build_demand_profile, get_model) and   *)
(* of the refresh button of dashboard.py.                                  *)
(*                                                                         *)
(* A DataFrame is a record [columns, rows]: columns is the sequence of the *)
(* column names, rows the sequence of the rows, each row a tuple aligned   *)
(* with columns.  NULL is pandas' NaN / NaT.  Time is counted in ticks of  *)
(* half a day.                                                             *)
(***************************************************************************)
EXTENDS Integers, Sequences, FiniteSets, TLC

VARIABLES
    cache,    \* data_cache/: file name -> NoFile or a file (body, mtime)
    now,      \* the UTC clock, in ticks
    last,     \* the last fetch_csv call: its arguments and what it did
    out,      \* the last build_supply_profile / get_model call and its result
    calls,    \* get_model calls in a row since the last other fetch
    disk,     \* interleaved runs: file name -> the chunks on disk
    proc      \* interleaved runs: each invocation's position and locals

vars == <<cache, now, last, out, calls, disk, proc>>

----------------------------------------------------------------------------
(* Bounds of the model *)

MaxTime == 3

\* the most rows of a published nameplate, outlook and flows file
MaxNameplateRows == 2

MaxOutlookRows == 2

MaxFlowRows == 2

\* the most get_model calls in a row that are followed
MaxCalls == 2

\* interleaved runs: the script runs that overlap, and the pieces in which
\* the bytes of one body reach the disk
NumRuns == 2

NumChunks == 2

----------------------------------------------------------------------------
(* Values *)

\* NaN / NaT: a number no quantity, date, sum or difference of the model equals
NULL == 0 - 1000000

\* timedelta.days of one day, in ticks (a tick is half a day)
DayTicks == 2

Keys == {"flows", "mto_future", "nameplate"}

\* a key that is not in FILES
BogusKey == "prices"

FILES ==
    [flows      |-> "GasBBActualFlowStorageLast31.CSV",
     mto_future |-> "GasBBMediumTermCapacityOutlookFuture.csv",
     nameplate  |-> "GasBBNameplateRatingCurrent.csv"]

CacheFiles == {FILES[k] : k \in Keys}

NoFile == [exists |-> FALSE]

File(body, mtime) == [exists |-> TRUE, body |-> body, mtime |-> mtime]

\* the header line of each published file, in the case the source publishes it
SourceHeader ==
    [flows      |-> <<"GasDay", "ZoneType", "ZoneName", "Quantity">>,
     mto_future |-> <<"FacilityName", "FacilityType", "GasDay", "Capacity">>,
     nameplate  |-> <<"FacilityName", "FacilityType", "NamePlateRating">>]

\* a header of an older revision of the nameplate file: the rating column
\* has another name
DriftedHeader == <<"FacilityName", "FacilityType", "CapacityQuantity">>

CsvBody(header, rows) == [kind |-> "csv", header |-> header, rows |-> rows]

\* an HTML error page: "<!DOCTYPE html>" on its first line and lines with
\* commas in them after it
HtmlBody == [kind |-> "html"]

\* a response of zero bytes
EmptyBody == [kind |-> "empty"]

\* str.lower on the column names that occur
LowerTable ==
    ("GasDay" :> "gasday") @@ ("ZoneType" :> "zonetype") @@
    ("ZoneName" :> "zonename") @@ ("Quantity" :> "quantity") @@
    ("FacilityName" :> "facilityname") @@ ("FacilityType" :> "facilitytype") @@
    ("Capacity" :> "capacity") @@ ("NamePlateRating" :> "nameplaterating") @@
    ("CapacityQuantity" :> "capacityquantity")

Lower(s) == IF s \in DOMAIN LowerTable THEN LowerTable[s] ELSE s

Frame(columns, rows) == [columns |-> columns, rows |-> rows]

ColSet(df) == {df.columns[i] : i \in 1..Len(df.columns)}

ColIdx(df, name) == CHOOSE i \in 1..Len(df.columns) : df.columns[i] = name

\* DataFrame.empty: no rows (every frame here has columns, or none and no rows)
IsEmpty(df) == Len(df.rows) = 0

----------------------------------------------------------------------------
(* The fetcher *)

\* the answers of the server: requests.get raises, raise_for_status raises,
\* or a body arrives with a success status
NetError == [status |-> "neterror"]

HttpError == [status |-> "httperror"]

Ok(body) == [status |-> "ok", body |-> body]

\* a faulty variant of _download: the file is opened (and so emptied) before
\* raise_for_status
DownloadTruncatesFirst(c, t, fname, resp) ==
    IF resp.status = "ok"
    THEN [raised |-> FALSE, cache |-> [c EXCEPT ![fname] = File(resp.body, t)],
          log |-> <<>>]
    ELSE IF resp.status = "httperror"
    THEN [raised |-> TRUE, cache |-> [c EXCEPT ![fname] = File(EmptyBody, t)],
          log |-> <<"download">>]
    ELSE [raised |-> TRUE, cache |-> c, log |-> <<"download">>]

\* _download: the file is opened and written only after raise_for_status;
\* every exception is logged and raised again
Download(c, t, fname, resp) ==
    IF resp.status = "ok"
    THEN [raised |-> FALSE, cache |-> [c EXCEPT ![fname] = File(resp.body, t)],
          log |-> <<>>]
    ELSE [raised |-> TRUE, cache |-> c, log |-> <<"download">>]

\* timedelta.days of a non-negative difference
Days(d) == d \div DayTicks

\* a faulty variant of _stale: every file is stale
StaleAlways(c, t, fname) == TRUE

\* _stale
Stale(c, t, fname) ==
    IF ~c[fname].exists THEN TRUE ELSE Days(t - c[fname].mtime) > 0

\* pd.read_csv: EmptyDataError on no bytes, ParserError on the HTML page
\* (its lines have more fields than its first line), else the table
ReadCsv(body) ==
    IF body.kind = "csv"
    THEN [raised |-> FALSE, df |-> Frame(body.header, body.rows)]
    ELSE [raised |-> TRUE]

\* df.columns.str.lower()
LowerColumns(df) ==
    Frame([i \in 1..Len(df.columns) |-> Lower(df.columns[i])], df.rows)

ExpectedCols ==
    [nameplate  |-> <<"facilityname", "facilitytype", "nameplaterating">>,
     mto_future |-> <<"facilityname", "facilitytype", "gasday", "capacity">>,
     flows      |-> <<"gasday", "zonetype", "zonename", "quantity">>]

\* faulty variants of the except block: no branch for "flows"; a KeyError
\* that is let through
ExceptForgetsFlows(key) ==
    IF key \in {"nameplate", "mto_future"}
    THEN [raised |-> FALSE, df |-> Frame(ExpectedCols[key], <<>>)]
    ELSE [raised |-> FALSE, df |-> Frame(<<>>, <<>>)]

ExceptKeyError(key) ==
    IF key \in Keys
    THEN [raised |-> FALSE, df |-> Frame(ExpectedCols[key], <<>>)]
    ELSE [raised |-> TRUE, df |-> Frame(<<>>, <<>>)]

\* the except block of fetch_csv: it returns a frame for every key
Except(key) ==
    IF key = "nameplate" THEN [raised |-> FALSE, df |-> Frame(ExpectedCols.nameplate, <<>>)]
    ELSE IF key = "mto_future" THEN [raised |-> FALSE, df |-> Frame(ExpectedCols.mto_future, <<>>)]
    ELSE IF key = "flows" THEN [raised |-> FALSE, df |-> Frame(ExpectedCols.flows, <<>>)]
    ELSE [raised |-> FALSE, df |-> Frame(<<>>, <<>>)]

\* The element of a one-element set.  Only({e(x) : x \in {v}}) is e with x
\* bound to the value of v, computed once.
Only(S) == CHOOSE x \in S : TRUE

\* the try block of fetch_csv, after FILES[key] was found
TryFetch(c, t, key, force, resp) ==
    LET fname == FILES[key]
        doDl  == force \/ Stale(c, t, fname)
    IN  Only({
          IF dl.raised
          THEN [raised |-> TRUE, cache |-> dl.cache, log |-> dl.log, attempted |-> doDl]
          ELSE Only({
                 IF rd.raised
                 THEN [raised |-> TRUE, cache |-> dl.cache, log |-> dl.log,
                       attempted |-> doDl]
                 ELSE [raised |-> FALSE, cache |-> dl.cache, log |-> dl.log,
                       attempted |-> doDl, df |-> LowerColumns(rd.df)] :
                 rd \in {ReadCsv(dl.cache[fname].body)}}) :
          dl \in {IF doDl THEN Download(c, t, fname, resp)
                  ELSE [raised |-> FALSE, cache |-> c, log |-> <<>>]}})

\* fetch_csv(key, force) at time t on cache c, the server answering resp:
\* the frame returned (or raised), the cache after it, what was logged,
\* whether a download was attempted, whether the except block ran
FetchCsv(c, t, key, force, resp) ==
    IF key \notin DOMAIN FILES
    THEN [raised |-> Except(key).raised, df |-> Except(key).df, cache |-> c,
          log |-> <<"load">>, attempted |-> FALSE, failed |-> TRUE]
    ELSE Only({
           IF try.raised
           THEN [raised |-> Except(key).raised, df |-> Except(key).df,
                 cache |-> try.cache, log |-> Append(try.log, "load"),
                 attempted |-> try.attempted, failed |-> TRUE]
           ELSE [raised |-> FALSE, df |-> try.df, cache |-> try.cache,
                 log |-> try.log, attempted |-> try.attempted, failed |-> FALSE] :
           try \in {TryFetch(c, t, key, force, resp)}})

----------------------------------------------------------------------------
(* The normalisers, the profile builders and the model assembler *)

Cell(df, r, name) == r[ColIdx(df, name)]

\* the gas days that occur, as the source writes them, and the dates
\* pd.to_datetime makes of them (days since 2023-12-31)
DateTable ==
    ("2024-01-01" :> 1) @@ ("2024-01-02" :> 2) @@ ("2024-01-03" :> 3) @@
    ("01 Jan 2024" :> 1)

\* pd.to_datetime(errors="coerce") on one cell: NaT when it is no date
ToDatetime(s) == IF s \in DOMAIN DateTable THEN DateTable[s] ELSE NULL

\* the distinct values of a set of dates, ascending (groupby sorts its keys)
RECURSIVE SortedSeq(_)
SortedSeq(S) ==
    IF S = {} THEN <<>>
    ELSE LET m == CHOOSE x \in S : \A y \in S : x <= y
         IN  <<m>> \o SortedSeq(S \ {m})

\* Series.sum over the cells of a sequence: NaN cells are skipped, and the
\* sum of none is 0
RECURSIVE SumSkipNa(_)
SumSkipNa(cells) ==
    IF cells = <<>> THEN 0
    ELSE (IF Head(cells) = NULL THEN 0 ELSE Head(cells)) + SumSkipNa(Tail(cells))

\* a faulty variant of the group sum: the first cell of the group stands for
\* the group
SumFirstOnly(rows, key) ==
    LET hit == SelectSeq(rows, LAMBDA r : r[1] = key)
    IN  IF hit[1][2] = NULL THEN 0 ELSE hit[1][2]

\* the sum of the values of the <<key, value>> rows with the given key
SumOfKey(rows, key) ==
    LET hit == SelectSeq(rows, LAMBDA r : r[1] = key)
    IN  SumSkipNa([i \in 1..Len(hit) |-> hit[i][2]])

\* df.groupby(key)[value].sum().reset_index() on <<key, value>> rows: one row
\* per key that is not NaN / NaT, keys ascending
GroupSum(rows) ==
    Only({
      [i \in 1..Len(keys) |-> <<keys[i], SumOfKey(rows, keys[i])>>] :
      keys \in {SortedSeq({rows[i][1] : i \in 1..Len(rows)} \ {NULL})}})

\* clean_nameplate
CleanNameplate(df) ==
    IF ~({"facilityname", "facilitytype", "nameplaterating"} \subseteq ColSet(df))
    THEN Frame(<<"FacilityName", "TJ_Nameplate">>, <<>>)
    ELSE LET prod == SelectSeq(df.rows,
                       LAMBDA r : Cell(df, r, "facilitytype") = "production")
         IN  Frame(<<"FacilityName", "TJ_Nameplate">>,
                   [i \in 1..Len(prod) |->
                      <<Cell(df, prod[i], "facilityname"),
                        Cell(df, prod[i], "nameplaterating")>>])

\* clean_mto
CleanMto(df) ==
    IF ~({"facilityname", "facilitytype", "gasday", "capacity"} \subseteq ColSet(df))
    THEN Frame(<<"FacilityName", "GasDay", "TJ_Available">>, <<>>)
    ELSE LET prod == SelectSeq(df.rows,
                       LAMBDA r : Cell(df, r, "facilitytype") = "production")
             proj == [i \in 1..Len(prod) |->
                        <<Cell(df, prod[i], "facilityname"),
                          ToDatetime(Cell(df, prod[i], "gasday")),
                          Cell(df, prod[i], "capacity")>>]
         IN  Frame(<<"FacilityName", "GasDay", "TJ_Available">>,
                   SelectSeq(proj, LAMBDA r : r[2] # NULL))

\* Series.fillna(other) on one cell
FillNaNever(value, other) == value

FillNa(value, other) == IF value = NULL THEN other ELSE value

\* mto.merge(nameplate, on="FacilityName", how="left") and the fillna of
\* TJ_Available, for one row of mto: one row per nameplate row of the
\* facility, in nameplate's order, or one row with a NaN TJ_Nameplate
JoinNameplate(m, nameplateRows) ==
    LET hit == SelectSeq(nameplateRows, LAMBDA n : n[1] = m[1])
    IN  IF hit = <<>>
        THEN << <<m[1], m[2], FillNa(m[3], NULL), NULL>> >>
        ELSE [i \in 1..Len(hit) |-> <<m[1], m[2], FillNa(m[3], hit[i][2]), hit[i][2]>>]

RECURSIVE MergeSupply(_, _)
MergeSupply(mtoRows, nameplateRows) ==
    IF mtoRows = <<>> THEN <<>>
    ELSE JoinNameplate(Head(mtoRows), nameplateRows)
           \o MergeSupply(Tail(mtoRows), nameplateRows)

SupplyColumns == <<"FacilityName", "GasDay", "TJ_Available", "TJ_Nameplate">>

\* lines 122-128 of build_supply_profile, on the two cleaned frames
SupplyOf(nameplate, mto) ==
    IF IsEmpty(nameplate) \/ IsEmpty(mto)
    THEN Frame(SupplyColumns, <<>>)
    ELSE Frame(SupplyColumns, MergeSupply(mto.rows, nameplate.rows))

\* build_supply_profile() at time t on cache c; resp[key] is what the server
\* answers if key is downloaded
BuildSupplyProfile(c, t, resp) ==
    Only({
      Only({
        [cache     |-> m.cache,
         downloads |-> {k \in {"nameplate"} : n.attempted}
                         \cup {k \in {"mto_future"} : m.attempted},
         raw       |-> [nameplate |-> n.df, mto_future |-> m.df],
         df        |-> SupplyOf(CleanNameplate(n.df), CleanMto(m.df))] :
        m \in {FetchCsv(n.cache, t, "mto_future", FALSE, resp["mto_future"])}}) :
      n \in {FetchCsv(c, t, "nameplate", FALSE, resp["nameplate"])}})

\* lines 137-147 of build_demand_profile, on the frame fetch_csv returned
DemandOf(flows) ==
    IF ~({"gasday", "zonetype", "zonename", "quantity"} \subseteq ColSet(flows))
    THEN Frame(<<"GasDay", "TJ_Demand">>, <<>>)
    ELSE LET zone == SelectSeq(flows.rows,
                       LAMBDA r : /\ Cell(flows, r, "zonetype") = "demand"
                                  /\ Cell(flows, r, "zonename") = "whole wa")
             kv   == [i \in 1..Len(zone) |->
                        <<ToDatetime(Cell(flows, zone[i], "gasday")),
                          Cell(flows, zone[i], "quantity")>>]
         IN  Frame(<<"GasDay", "TJ_Demand">>, GroupSum(kv))

\* build_demand_profile()
BuildDemandProfile(c, t, resp) ==
    Only({
      [cache     |-> f.cache,
       downloads |-> {k \in {"flows"} : f.attempted},
       raw       |-> f.df,
       df        |-> DemandOf(f.df)] :
      f \in {FetchCsv(c, t, "flows", FALSE, resp["flows"])}})

\* a - b on two cells: NaN when either is
Minus(a, b) == IF a = NULL \/ b = NULL THEN NULL ELSE a - b

\* dem.merge(total_supply, on="GasDay", how="left") for one row of dem, and
\* the Shortfall column; total_supply has one row per day
ModelRowZeroFill(d, totalSupply) ==
    LET hit   == SelectSeq(totalSupply, LAMBDA s : s[1] = d[1])
        avail == IF hit = <<>> THEN 0 ELSE hit[1][2]
    IN  <<d[1], d[2], avail, Minus(avail, d[2])>>

ModelRow(d, totalSupply) ==
    LET hit   == SelectSeq(totalSupply, LAMBDA s : s[1] = d[1])
        avail == IF hit = <<>> THEN NULL ELSE hit[1][2]
    IN  <<d[1], d[2], avail, Minus(avail, d[2])>>

ModelColumns == <<"GasDay", "TJ_Demand", "TJ_Available", "Shortfall">>

\* lines 160-163 of get_model: the model table of two non-empty profiles
ModelOf(sup, dem) ==
    Only({
      Frame(ModelColumns, [i \in 1..Len(dem.rows) |-> ModelRow(dem.rows[i], total)]) :
      total \in {GroupSum([i \in 1..Len(sup.rows) |->
                             <<sup.rows[i][2], sup.rows[i][3]>>])}})

\* a faulty variant of lines 157-163: no early return
AssembleAlways(sup, dem) == <<sup, ModelOf(sup, dem)>>

\* lines 157-163 of get_model: the pair returned for the two profiles
Assemble(sup, dem) ==
    IF IsEmpty(sup) \/ IsEmpty(dem)
    THEN <<sup, dem>>
    ELSE <<sup, ModelOf(sup, dem)>>

\* get_model() at time t on cache c
GetModel(c, t, resp) ==
    Only({
      Only({
        [cache     |-> d.cache,
         downloads |-> s.downloads \cup d.downloads,
         sup       |-> s.df,
         dem       |-> d.df,
         result    |-> Assemble(s.df, d.df)] :
        d \in {BuildDemandProfile(s.cache, t, resp)}}) :
      s \in {BuildSupplyProfile(c, t, resp)}})

----------------------------------------------------------------------------
(* The fetcher called from outside: fetch_csv(key, force) at any time *)

SampleRows ==
    [flows      |-> <<<<"2024-01-01", "demand", "whole wa", 45>>>>,
     mto_future |-> <<<<"A", "production", "2024-01-01", 40>>>>,
     nameplate  |-> <<<<"A", "production", 50>>>>]

\* what the server may send for a key with a success status
FetchBodies(key) == {CsvBody(SourceHeader[key], SampleRows[key]), HtmlBody}

FetchResponses(key) == {NetError, HttpError} \cup {Ok(b) : b \in FetchBodies(key)}

\* no request was made
NotAsked == [status |-> "none"]

\* the server is asked for a file only when the fetch downloads it (it is
\* forced, or finds the file stale): answers are its possible answers then
Asked(c, t, key, force, answers) ==
    IF force \/ Stale(c, t, FILES[key]) THEN answers ELSE {NotAsked}

NoCall ==
    [key |-> "none", force |-> FALSE, resp |-> NotAsked, at |-> 0, pre |-> NoFile,
     attempted |-> FALSE, raised |-> FALSE, failed |-> FALSE,
     df |-> Frame(<<>>, <<>>), log |-> <<>>]

NoOutput == [op |-> "none"]

Runs == 1..NumRuns

IdleRun == [pc |-> "idle", key |-> "none", force |-> FALSE, ver |-> 0, pos |-> 0,
            seen |-> <<>>]

IdleProcs == [p \in Runs |-> IdleRun]

Init ==
    /\ cache = [f \in CacheFiles |-> NoFile]
    /\ now = 0
    /\ last = NoCall
    /\ out = NoOutput
    /\ calls = 0
    /\ disk = [f \in CacheFiles |-> NoFile]
    /\ proc = IdleProcs

\* fetch_csv(key, force) with a recognized key
FetchCsvCall ==
    \E key \in Keys, force \in BOOLEAN :
      \E resp \in Asked(cache, now, key, force, FetchResponses(key)) :
        LET r == FetchCsv(cache, now, key, force, resp)
        IN  /\ cache' = r.cache
            /\ last' = [key |-> key, force |-> force, resp |-> resp, at |-> now,
                        pre |-> cache[FILES[key]], attempted |-> r.attempted,
                        raised |-> r.raised, failed |-> r.failed, df |-> r.df,
                        log |-> r.log]
            /\ UNCHANGED <<now, out, calls, disk, proc>>

\* fetch_csv(key, force) with a key that is not in FILES
FetchCsvUnknown ==
    \E force \in BOOLEAN :
        LET r == FetchCsv(cache, now, BogusKey, force, NotAsked)
        IN  /\ cache' = r.cache
            /\ last' = [key |-> BogusKey, force |-> force, resp |-> NotAsked,
                        at |-> now, pre |-> NoFile, attempted |-> r.attempted,
                        raised |-> r.raised, failed |-> r.failed, df |-> r.df,
                        log |-> r.log]
            /\ UNCHANGED <<now, out, calls, disk, proc>>

\* half a day passes
Tick ==
    /\ now < MaxTime
    /\ now' = now + 1
    /\ UNCHANGED <<cache, last, out, calls, disk, proc>>

Next == FetchCsvCall \/ FetchCsvUnknown \/ Tick

Spec == Init /\ [][Next]_vars

----------------------------------------------------------------------------
(* Claims about the fetcher, under Spec *)

LastFile == cache[FILES[last.key]]

LastAge == last.at - last.pre.mtime

\* C1 (as claimed): fetch_csv with a recognized key attempts a download
\* exactly when force is set or the cached file is missing or was modified
\* more than 24h before the call; with force unset and a file younger than
\* 24h it downloads nothing, leaves the file as it was and returns its parse.
C1_DownloadIffForcedOrOlderThan24h ==
    last.key \in Keys =>
      /\ last.attempted <=>
           (last.force \/ ~last.pre.exists \/ LastAge > DayTicks)
      /\ (~last.force /\ last.pre.exists /\ LastAge < DayTicks) =>
           /\ ~last.attempted
           /\ LastFile = last.pre
           /\ last.pre.body.kind = "csv" =>
                /\ ~last.failed
                /\ last.df.rows = last.pre.body.rows

\* the call the claim is wrong about: a file modified exactly 24h ago
C1_ExactlyOneDayOld ==
    /\ last.key \in Keys
    /\ ~last.force
    /\ last.pre.exists
    /\ LastAge = DayTicks

\* C2 (as claimed): a body that starts with an HTML document marker is never
\* written to the cache, and the fetch that received it fails.
C2_HtmlNeverCached ==
    /\ \A f \in CacheFiles : cache[f].exists => cache[f].body.kind # "html"
    /\ (last.key \in Keys /\ last.attempted /\ last.resp = Ok(HtmlBody)) =>
         last.failed

\* C3: a fetch whose download fails (network error or non-success status)
\* leaves every cached file as it was: existence, contents and mtime.
C3_FailedDownloadLeavesCache ==
    [][(last'.attempted /\ last'.resp.status \in {"neterror", "httperror"})
         => cache' = cache]_vars

C3_FailedOverCachedFile ==
    /\ last.key \in Keys
    /\ last.attempted
    /\ last.resp.status = "httperror"
    /\ last.failed
    /\ last.pre.exists
    /\ LastFile = last.pre

CanonicalColumns(key) ==
    CASE key = "nameplate"  -> <<"facilityname", "facilitytype", "nameplaterating">>
      [] key = "mto_future" -> <<"facilityname", "facilitytype", "gasday", "capacity">>
      [] key = "flows"      -> <<"gasday", "zonetype", "zonename", "quantity">>

\* the download of the last call failed, or the file it had to parse is no CSV
LastCallFailed ==
    \/ last.attempted /\ last.resp.status # "ok"
    \/ LastFile.exists /\ LastFile.body.kind # "csv"

\* C4: fetch_csv with a recognized key never raises; when the download or
\* the parsing fails it returns the empty frame with the canonical columns of
\* the key and the error is logged.
C4_NeverRaisesCanonicalEmpty ==
    last.key \in Keys =>
      /\ ~last.raised
      /\ LastCallFailed =>
           /\ last.df = Frame(CanonicalColumns(last.key), <<>>)
           /\ Len(last.log) > 0
           /\ last.log[Len(last.log)] = "load"
      /\ ~LastCallFailed => Len(last.df.rows) > 0

C4_FlowsParseFailed ==
    /\ last.key = "flows"
    /\ last.attempted
    /\ last.resp = Ok(HtmlBody)
    /\ last.df = Frame(<<"gasday", "zonetype", "zonename", "quantity">>, <<>>)
    /\ last.log = <<"load">>

\* C5 (as claimed): fetch_csv with an unrecognized key raises to its caller.
C5_UnknownKeyRaises ==
    last.key = BogusKey => last.raised

\* C5 (amended): fetch_csv with an unrecognized key does not raise: it
\* downloads nothing, logs the error and returns a frame with no columns and
\* no rows.
C5_UnknownKeyDegrades ==
    last.key = BogusKey =>
      /\ ~last.raised
      /\ ~last.attempted
      /\ last.df = Frame(<<>>, <<>>)
      /\ last.log = <<"load">>

C5_UnknownKeyCalled ==
    /\ last.key = BogusKey
    /\ last.log = <<"load">>
    /\ \E f \in CacheFiles : cache[f].exists

----------------------------------------------------------------------------
(* build_supply_profile() on a new data_cache/: SpecSupply *)

\* the sequences over S of at most n elements
SeqsUpTo(S, n) == UNION {[1..k -> S] : k \in 0..n}

\* rows of the published nameplate file: a rated facility, one with no
\* rating, a second facility, a facility that is no production facility
SupplyNameplateRows ==
    {<<"A", "production", 50>>, <<"A", "production", NULL>>,
     <<"B", "production", 70>>, <<"A", "storage", 60>>}

\* rows of the published outlook file: with and without a capacity, of a
\* facility that is no production facility, with a gas day that is no date
SupplyOutlookRows ==
    {<<"A", "production", "2024-01-01", 40>>, <<"A", "production", "2024-01-01", NULL>>,
     <<"B", "production", "2024-01-01", NULL>>, <<"B", "production", "2024-01-02", 80>>,
     <<"A", "storage", "2024-01-01", 40>>, <<"A", "production", "n/a", 40>>}

SupplyNameplateAnswers ==
    {HttpError, Ok(CsvBody(DriftedHeader, <<<<"A", "production", 50>>>>))}
      \cup {Ok(CsvBody(SourceHeader.nameplate, rows)) :
              rows \in SeqsUpTo(SupplyNameplateRows, MaxNameplateRows)}

SupplyOutlookAnswers ==
    {HttpError}
      \cup {Ok(CsvBody(SourceHeader.mto_future, rows)) :
              rows \in SeqsUpTo(SupplyOutlookRows, MaxOutlookRows)}

BuildSupplyCall ==
    \E resp \in [nameplate  : Asked(cache, now, "nameplate", FALSE, SupplyNameplateAnswers),
                 mto_future : Asked(cache, now, "mto_future", FALSE, SupplyOutlookAnswers),
                 flows      : {NotAsked}] :
        LET r == BuildSupplyProfile(cache, now, resp)
        IN  /\ cache' = r.cache
            /\ out' = [op |-> "build_supply_profile", raw |-> r.raw, df |-> r.df]
            /\ UNCHANGED <<now, last, calls, disk, proc>>

SpecSupply == Init /\ [][BuildSupplyCall]_vars

(* Claims about the supply profile, under SpecSupply *)

\* the <<facility, rating>> pairs of the production rows of the nameplate
\* frame that fetch_csv returned
NameplateInput ==
    LET df == out.raw.nameplate
    IN  IF "nameplaterating" \notin ColSet(df) THEN {}
        ELSE {<<Cell(df, df.rows[i], "facilityname"), Cell(df, df.rows[i], "nameplaterating")>> :
                i \in {j \in 1..Len(df.rows) :
                         Cell(df, df.rows[j], "facilitytype") = "production"}}

\* the <<facility, day, capacity>> triples of the production rows with a
\* parseable gas day of the outlook frame that fetch_csv returned
OutlookInput ==
    LET df == out.raw.mto_future
    IN  {<<Cell(df, df.rows[i], "facilityname"),
           DateTable[Cell(df, df.rows[i], "gasday")],
           Cell(df, df.rows[i], "capacity")>> :
           i \in {j \in 1..Len(df.rows) :
                    /\ Cell(df, df.rows[j], "facilitytype") = "production"
                    /\ Cell(df, df.rows[j], "gasday") \in DOMAIN DateTable}}

\* the available capacities the claim allows for the outlook row o
AllowedAvailable(o) ==
    IF o[3] # NULL THEN {o[3]}
    ELSE IF \E n \in NameplateInput : n[1] = o[1]
    THEN {n[2] : n \in {m \in NameplateInput : m[1] = o[1]}}
    ELSE {NULL}

\* C9: with a non-empty nameplate and a non-empty outlook input, every
\* outlook row (F, D) has a supply row, and every supply row comes from an
\* outlook row (F, D) and carries the outlook capacity when there is one and
\* else a nameplate rating of F; so its available capacity is NaN only when
\* the outlook capacity is NaN and F has no rating or a NaN rating.
C9_SupplyFallback ==
    (out.op = "build_supply_profile" /\ NameplateInput # {} /\ OutlookInput # {}) =>
      /\ \A o \in OutlookInput :
           \E i \in 1..Len(out.df.rows) :
             /\ out.df.rows[i][1] = o[1]
             /\ out.df.rows[i][2] = o[2]
             /\ out.df.rows[i][3] \in AllowedAvailable(o)
      /\ \A i \in 1..Len(out.df.rows) :
           \E o \in OutlookInput :
             /\ out.df.rows[i][1] = o[1]
             /\ out.df.rows[i][2] = o[2]
             /\ out.df.rows[i][3] \in AllowedAvailable(o)
             /\ out.df.rows[i][3] = NULL =>
                  /\ o[3] = NULL
                  /\ out.df.rows[i][4] = NULL
      /\ \A o \in OutlookInput :
           (o[3] = NULL /\ \E n \in NameplateInput : n[1] = o[1] /\ n[2] # NULL) =>
             \E i \in 1..Len(out.df.rows) :
               /\ out.df.rows[i][1] = o[1]
               /\ out.df.rows[i][2] = o[2]
               /\ out.df.rows[i][3] # NULL

\* facility A on 2024-01-01: no outlook capacity, nameplate 50, available 50
C9_FallbackTo50 ==
    /\ out.op = "build_supply_profile"
    /\ NameplateInput = {<<"A", 50>>}
    /\ OutlookInput = {<<"A", 1, NULL>>}
    /\ out.df = Frame(SupplyColumns, <<<<"A", 1, 50, 50>>>>)

----------------------------------------------------------------------------
(* get_model() on a new data_cache/: SpecModel *)

ModelNameplateAnswers ==
    {HttpError,
     Ok(CsvBody(SourceHeader.nameplate,
                <<<<"A", "production", 50>>, <<"B", "production", 70>>>>))}

\* outlook rows of two rated facilities on two days, one without a capacity,
\* and one of a facility with neither a capacity nor a nameplate rating
ModelOutlookRows ==
    {<<"A", "production", "2024-01-01", 40>>, <<"B", "production", "2024-01-01", 80>>,
     <<"A", "production", "2024-01-02", NULL>>, <<"C", "production", "2024-01-01", NULL>>}

\* flow rows of the whole-WA demand zone on two days, one of another zone,
\* one with a gas day that is no date, one with the day written otherwise
ModelFlowRows ==
    {<<"2024-01-01", "demand", "whole wa", 150>>, <<"2024-01-02", "demand", "whole wa", 38>>,
     <<"01 Jan 2024", "demand", "whole wa", 45>>, <<"2024-01-01", "demand", "east", 9>>,
     <<"n/a", "demand", "whole wa", 45>>}

ModelOutlookAnswers ==
    {HttpError}
      \cup {Ok(CsvBody(SourceHeader.mto_future, rows)) :
              rows \in SeqsUpTo(ModelOutlookRows, MaxOutlookRows)}

ModelFlowAnswers ==
    {NetError, Ok(HtmlBody)}
      \cup {Ok(CsvBody(SourceHeader.flows, rows)) :
              rows \in SeqsUpTo(ModelFlowRows, MaxFlowRows)}

GetModelCall ==
    \E resp \in [nameplate  : Asked(cache, now, "nameplate", FALSE, ModelNameplateAnswers),
                 mto_future : Asked(cache, now, "mto_future", FALSE, ModelOutlookAnswers),
                 flows      : Asked(cache, now, "flows", FALSE, ModelFlowAnswers)] :
        LET r == GetModel(cache, now, resp)
        IN  /\ cache' = r.cache
            /\ out' = [op |-> "get_model", sup |-> r.sup, dem |-> r.dem,
                       result |-> r.result, downloads |-> r.downloads]
            /\ UNCHANGED <<now, last, calls, disk, proc>>

SpecModel == Init /\ [][GetModelCall]_vars

(* Claims about the model table, under SpecModel *)

\* C7 (as claimed): when the supply or the demand profile is empty, both
\* tables get_model returns are empty.
C7_BothEmpty ==
    (out.op = "get_model" /\ (IsEmpty(out.sup) \/ IsEmpty(out.dem))) =>
      /\ IsEmpty(out.result[1])
      /\ IsEmpty(out.result[2])

\* C7 (amended): when the supply or the demand profile is empty, get_model
\* returns the two profiles themselves, so at least one of the two tables is
\* empty and the second has the columns of the demand profile, not those of
\* the model.
C7_ProfilesReturned ==
    (out.op = "get_model" /\ (IsEmpty(out.sup) \/ IsEmpty(out.dem))) =>
      /\ out.result[1] = out.sup
      /\ out.result[2] = out.dem
      /\ IsEmpty(out.result[1]) \/ IsEmpty(out.result[2])
      /\ out.result[2].columns = <<"GasDay", "TJ_Demand">>

C7_SupplyEmptyDemandNot ==
    /\ out.op = "get_model"
    /\ IsEmpty(out.sup)
    /\ ~IsEmpty(out.dem)
    /\ out.result[2] = Frame(<<"GasDay", "TJ_Demand">>, <<<<1, 150>>, <<2, 38>>>>)

\* the sum of the cells of column col of the rows of index set S, NaN
\* cells left out
RECURSIVE SumRows(_, _, _)
SumRows(rows, S, col) ==
    IF S = {} THEN 0
    ELSE LET i == CHOOSE j \in S : TRUE
             v == rows[i][col]
         IN  (IF v = NULL THEN 0 ELSE v) + SumRows(rows, S \ {i}, col)

\* the rows of the supply profile of a day
SupplyRowsOf(day) == {i \in 1..Len(out.sup.rows) : out.sup.rows[i][2] = day}

\* C8: when both profiles are non-empty the model has exactly one row per
\* gas day of the demand series; a day with supply rows carries the sum of
\* their available capacities and shortfall = total supply - demand; a day
\* without supply rows carries its demand and a NaN total supply and a NaN
\* shortfall.
C8_OneRowPerDemandDay ==
    (out.op = "get_model" /\ ~IsEmpty(out.sup) /\ ~IsEmpty(out.dem)) =>
      LET model == out.result[2]
      IN  /\ out.result[1] = out.sup
          /\ model.columns = <<"GasDay", "TJ_Demand", "TJ_Available", "Shortfall">>
          /\ {model.rows[i][1] : i \in 1..Len(model.rows)}
               = {out.dem.rows[i][1] : i \in 1..Len(out.dem.rows)}
          /\ \A i, j \in 1..Len(model.rows) :
               model.rows[i][1] = model.rows[j][1] => i = j
          /\ \A i \in 1..Len(model.rows) :
               LET m == model.rows[i]
               IN  /\ \E k \in 1..Len(out.dem.rows) :
                        out.dem.rows[k] = <<m[1], m[2]>>
                   /\ m[2] # NULL
                   /\ SupplyRowsOf(m[1]) # {} =>
                        /\ m[3] = SumRows(out.sup.rows, SupplyRowsOf(m[1]), 3)
                        /\ m[4] = m[3] - m[2]
                        /\ m[2] > m[3] => m[4] < 0
                   /\ SupplyRowsOf(m[1]) = {} =>
                        /\ m[3] = NULL
                        /\ m[4] = NULL

\* supply 120 against demand 150 on one day, and a demand day with no supply
C8_ShortfallAndMissingSupply ==
    /\ out.op = "get_model"
    /\ out.result[2].rows = <<<<1, 150, 120, 0 - 30>>, <<2, 38, NULL, NULL>>>>

----------------------------------------------------------------------------
(* get_model() called again and again, the refresh button, the clock:      *)
(* SpecIdem                                                                *)

\* what the files hold on a later day
LaterRows ==
    [flows      |-> <<<<"2024-01-01", "demand", "whole wa", 38>>>>,
     mto_future |-> <<<<"A", "production", "2024-01-01", NULL>>>>,
     nameplate  |-> <<<<"A", "production", 70>>>>]

IdemAnswers(key) ==
    {HttpError, Ok(CsvBody(SourceHeader[key], SampleRows[key])),
     Ok(CsvBody(SourceHeader[key], LaterRows[key]))}

\* load_gas_data() with nothing memoized: get_model()
GetModelAgain ==
    /\ calls < MaxCalls
    /\ \E resp \in [nameplate  : Asked(cache, now, "nameplate", FALSE, IdemAnswers("nameplate")),
                    mto_future : Asked(cache, now, "mto_future", FALSE, IdemAnswers("mto_future")),
                    flows      : Asked(cache, now, "flows", FALSE, IdemAnswers("flows"))] :
         LET r == GetModel(cache, now, resp)
         IN  /\ cache' = r.cache
             /\ out' = [op |-> "get_model", result |-> r.result,
                        downloads |-> r.downloads,
                        prev |-> IF calls = 0 THEN <<>> ELSE out.result]
             /\ calls' = calls + 1
             /\ UNCHANGED <<now, last, disk, proc>>

\* the "Scrape latest AEMO files" button: two forced fetches, and the
\* memoized result is dropped
ScrapeLatest ==
    \E r1 \in IdemAnswers("mto_future"), r2 \in IdemAnswers("flows") :
      \E m \in {FetchCsv(cache, now, "mto_future", TRUE, r1)} :
        \E f \in {FetchCsv(m.cache, now, "flows", TRUE, r2)} :
          /\ cache' = f.cache
          /\ out' = NoOutput
          /\ calls' = 0
          /\ UNCHANGED <<now, last, disk, proc>>

NextIdem == GetModelAgain \/ ScrapeLatest \/ Tick

SpecIdem == Init /\ [][NextIdem]_vars

(* Claims about repeated calls, under SpecIdem *)

\* C10 (as claimed): the second of two get_model calls in a row returns what
\* the first returned, whatever the cache holds and whatever the downloads of
\* the first call did.
C10_SecondCallIdentical ==
    (out.op = "get_model" /\ calls >= 2) => out.result = out.prev

\* every cached file exists and is younger than 24h
AllFresh ==
    \A k \in Keys :
      /\ cache[FILES[k]].exists
      /\ now - cache[FILES[k]].mtime < DayTicks

\* C10 (amended): a get_model call that follows a get_model call returns what
\* that call returned whenever it starts with the three cached files all
\* present and younger than 24h.
C10_IdenticalWhenAllFresh ==
    [][(calls >= 1 /\ calls' = calls + 1 /\ AllFresh) => out'.result = out.result]_vars

C10_SecondCallOnFreshCache ==
    /\ out.op = "get_model"
    /\ calls = 2
    /\ out.downloads = {}
    /\ ~IsEmpty(out.result[2])
    /\ out.result = out.prev

----------------------------------------------------------------------------
(* Overlapping script runs, each in fetch_csv on the files of the refresh  *)
(* button: SpecConc.  Streamlit runs the script of every session in a      *)
(* thread of its own; data_cache/ is shared and fetch_csv takes no lock.   *)
(* A body on disk is the sequence of its chunks; chunk i of the body of    *)
(* version v is <<v, i>>.                                                  *)

ButtonKeys == {"mto_future", "flows"}

Versions == {1, 2}

BodyOf(v) == [i \in 1..NumChunks |-> <<v, i>>]

\* bytes never written, behind which a write landed
Hole == <<0, 0>>

\* write(2) of one chunk at offset pos of a file that holds data
WriteAt(data, pos, chunk) ==
    IF pos < Len(data)
    THEN [data EXCEPT ![pos + 1] = chunk]
    ELSE data \o [i \in 1..(pos - Len(data)) |-> Hole] \o <<chunk>>

\* fetch_csv(key, force), line 62: force or _stale(fpath)
RunStart(p) ==
    /\ proc[p].pc = "idle"
    /\ \E key \in ButtonKeys, force \in BOOLEAN :
         proc' = [proc EXCEPT ![p] =
                    [IdleRun EXCEPT !.key = key, !.force = force,
                       !.pc = IF force \/ Stale(disk, now, FILES[key])
                              THEN "get" ELSE "read"]]
    /\ UNCHANGED <<cache, now, last, out, calls, disk>>

\* _download, lines 29-30: the request, and raise_for_status
RunGet(p) ==
    /\ proc[p].pc = "get"
    /\ \/ proc' = [proc EXCEPT ![p].pc = "except"]
       \/ \E v \in Versions : proc' = [proc EXCEPT ![p].pc = "open", ![p].ver = v]
    /\ UNCHANGED <<cache, now, last, out, calls, disk>>

\* _download, line 32: open(path, "wb") creates the file or empties it
RunOpen(p) ==
    /\ proc[p].pc = "open"
    /\ disk' = [disk EXCEPT ![FILES[proc[p].key]] = File(<<>>, now)]
    /\ proc' = [proc EXCEPT ![p].pc = "write", ![p].pos = 0]
    /\ UNCHANGED <<cache, now, last, out, calls>>

\* _download, line 33: the next chunk of response.content reaches the file,
\* at this run's own offset; after the last one the file is closed
RunWrite(p) ==
    /\ proc[p].pc = "write"
    /\ LET f == FILES[proc[p].key]
       IN  disk' = [disk EXCEPT ![f] =
                      File(WriteAt(disk[f].body, proc[p].pos,
                                   BodyOf(proc[p].ver)[proc[p].pos + 1]), now)]
    /\ proc' = [proc EXCEPT ![p].pos = proc[p].pos + 1,
                            ![p].pc = IF proc[p].pos + 1 = NumChunks
                                      THEN "read" ELSE "write"]
    /\ UNCHANGED <<cache, now, last, out, calls>>

\* fetch_csv, line 64: pd.read_csv reads what the file holds now
RunRead(p) ==
    /\ proc[p].pc = "read"
    /\ proc' = [proc EXCEPT ![p].pc = "done",
                            ![p].seen = disk[FILES[proc[p].key]].body]
    /\ UNCHANGED <<cache, now, last, out, calls, disk>>

\* fetch_csv returns (from the try block or from the except block), and the
\* run may call it again
RunReturn(p) ==
    /\ proc[p].pc \in {"done", "except"}
    /\ proc' = [proc EXCEPT ![p] = IdleRun]
    /\ UNCHANGED <<cache, now, last, out, calls, disk>>

NextConc ==
    \E p \in Runs :
      \/ RunStart(p)
      \/ RunGet(p)
      \/ RunOpen(p)
      \/ RunWrite(p)
      \/ RunRead(p)
      \/ RunReturn(p)

SpecConc == Init /\ [][NextConc]_vars

(* Claims about overlapping runs, under SpecConc *)

\* C6 (as claimed): the writes to one cached file are serialized (no two
\* runs are between open and close of the same file at once), and no
\* read_csv ever sees a file that is not one complete body.
C6_WritesSerializedNoPartialRead ==
    /\ \A p, q \in Runs :
         (p # q /\ proc[p].pc = "write" /\ proc[q].pc = "write") =>
           proc[p].key # proc[q].key
    /\ \A p \in Runs :
         proc[p].pc = "done" => \E v \in Versions : proc[p].seen = BodyOf(v)

====
